---- MODULE Spec2Model ----
(***************************************************************************)
(* ByteDog (src/bytedog.py): the monitoring-and-control engine.            *)
(*                                                                         *)
(*   SystemMonitor.get_process_list   the 2-second process cache           *)
(*   ByteDogApp.start_monitoring      the sampler thread (monitor_loop)    *)
(*   ByteDogApp.process_queue ...     the Tk event loop (one callback at a *)
(*                                    time, interleaved with the sampler)  *)
(*   ProcessManager                   kill / suspend / resume              *)
(*                                                                         *)
(* Time is counted in half seconds, so that the 0.5 s grace period of      *)
(* kill_process is one unit and the 2 s cache TTL is four.  Python lists   *)
(* are objects: a list is an identifier into `heap`, so two names may      *)
(* refer to the same list and an in-place change is seen through both.     *)
(***************************************************************************)
EXTENDS Integers, Sequences, FiniteSets, TLC

\* ---- program constants (in half seconds) --------------------------------
TTL == 4                 \* get_process_list: "< 2" seconds
GracePeriod == 1         \* kill_process: time.sleep(0.5)
DefaultInterval == 4     \* SystemMonitor.__init__: update_interval = 2.0

\* ---- bounds of the model -------------------------------------------------
MaxPid == 3              \* pids 1..MaxPid may exist
MaxTime == 8             \* the clock stops here unless a sleeper waits
MaxTicks == 2            \* sampler ticks per run
MaxUiOps == 2            \* event-loop callbacks per run
MaxSamples == 3          \* samples appended to a history per run

Pids == 1..MaxPid
None == -1               \* Python's None for memory_percent
MemVals == {None, 0, 1, 2}
Intervals == {2, 4, 6}   \* settings scale: 1.0, 2.0, 3.0 seconds
MaxIds == 2 * MaxTicks + MaxUiOps
Ids == 0..MaxIds         \* list objects; 0 stands for every [] literal
Threads == {"sampler", "ui"}

VARIABLES
    now,                 \* time.time()
    alive,               \* OS process table: the pids that exist
    stopped,             \* OS: the pids that are suspended
    os_mem,              \* OS: memory_percent per pid (None = access denied)
    process_cache,       \* SystemMonitor.process_cache (a list object)
    last_process_update, \* SystemMonitor.last_process_update
    update_interval,     \* SystemMonitor.update_interval
    heap,                \* contents of every list object
    nextId,              \* number of list objects allocated by sorted()
    data_queue,          \* ByteDogApp.data_queue
    pc,                  \* per thread: position in the code
    use_cache,           \* per thread: argument of get_process_list
    processes,           \* per thread: local `processes` of get_process_list
    ret,                 \* per thread: value returned by get_process_list
    s_wake,              \* sampler: end of the time.sleep in progress
    ticks,               \* sampler: ticks started
    s_err,               \* sampler: what raised in the current tick ("none" if nothing)
    s_put,               \* sampler: the current tick enqueued its bundle
    s_list,              \* sampler: the list object the current tick stored at line 143 (0 if none yet)
    call,                \* what the get_process_list(use_cache=True) call in progress saw at line 130
    prev,                \* what the last get_process_list(use_cache=True) call returned
    dirty,               \* the cache entry was assigned since that return
    stamped,             \* the list object for which line 144 last took the time
    ui_op,               \* event loop: the callback that is running
    ui_caller,           \* event loop: the function that called get_process_list
    uiOps,               \* event loop: callbacks started
    view_mode,           \* ByteDogApp.view_mode
    packed,              \* the frame that update_view_mode packed last
    cycled,              \* cycle_view_mode calls in a row, and the mode before the first
    asked,               \* the last set_view_mode call: the mode before it and the mode asked for
    timers,              \* root.after: the callbacks that are scheduled
    cpu_history,         \* SystemMonitor.cpu_history: samples appended
    ram_history,         \* SystemMonitor.ram_history: samples appended
    sort_column,         \* ByteDogApp.sort_column
    sort_reverse,        \* ByteDogApp.sort_reverse
    search_term,         \* ByteDogApp.search_var
    pm,                  \* ProcessManager: the call in progress (or the last one)
    pm_wake              \* ProcessManager.kill_process: end of time.sleep(0.5)

clockVars == <<now>>
osVars == <<alive, stopped, os_mem>>
cacheVars == <<process_cache, last_process_update, heap, nextId>>
ghostVars == <<call, prev, dirty, stamped>>
samplerVars == <<s_wake, ticks, s_err, s_put, s_list>>
queueVars == <<data_queue>>
viewVars == <<packed, cycled, asked>>
schedVars == <<timers, cpu_history, ram_history>>
sortVars == <<sort_column, sort_reverse, search_term>>
uiVars == <<ui_op, ui_caller, uiOps, view_mode, viewVars, schedVars, sortVars>>
pmVars == <<pm, pm_wake>>

vars == <<now, alive, stopped, os_mem, process_cache, last_process_update,
          update_interval, heap, nextId, data_queue, pc, use_cache, processes,
          ret, s_wake, ticks, s_err, s_put, s_list, call, prev, dirty, stamped,
          ui_op, ui_caller, uiOps, view_mode, packed, cycled, asked, timers,
          cpu_history, ram_history, sort_column, sort_reverse, search_term,
          pm, pm_wake>>

\* ---- lists ----------------------------------------------------------------
\* psutil.process_iter(['pid','name','memory_percent','status']) yields the
\* processes in ascending pid order; line 138 adds cpu_percent = 0.0.  A
\* process that vanishes during the iteration is skipped (lines 140-141):
\* the result is that of an enumeration of the table without it.

\* (variant) cpu_percent is measured
RecordCpuMeasured(p) == [pid |-> p, memory_percent |-> os_mem[p], cpu_percent |-> 1]

\* lines 136-139: proc.info with cpu_percent set to 0.0
Record(p) == [pid |-> p, memory_percent |-> os_mem[p], cpu_percent |-> 0]

RECURSIVE EnumerateFrom(_)
EnumerateFrom(p) ==
    IF p > MaxPid THEN <<>>
    ELSE IF p \in alive THEN <<Record(p)>> \o EnumerateFrom(p + 1)
    ELSE EnumerateFrom(p + 1)

Enumerate == EnumerateFrom(1)

\* key=lambda x: x['memory_percent'] or 0
MemKey(r) == IF r.memory_percent = None THEN 0 ELSE r.memory_percent

\* (variant) r goes before the elements whose key equals its own
RECURSIVE InsertDescUnstable(_, _)
InsertDescUnstable(r, s) ==
    IF s = <<>> THEN <<r>>
    ELSE IF MemKey(Head(s)) > MemKey(r) THEN <<Head(s)>> \o InsertDescUnstable(r, Tail(s))
    ELSE <<r>> \o s

\* sorted(..., reverse=True) is stable: r goes after every element whose key
\* is greater than or equal to its own
RECURSIVE InsertDesc(_, _)
InsertDesc(r, s) ==
    IF s = <<>> THEN <<r>>
    ELSE IF MemKey(Head(s)) >= MemKey(r) THEN <<Head(s)>> \o InsertDesc(r, Tail(s))
    ELSE <<r>> \o s

RECURSIVE SortedByMemoryDesc(_)
SortedByMemoryDesc(s) ==
    IF s = <<>> THEN <<>>
    ELSE InsertDesc(s[Len(s)], SortedByMemoryDesc(SubSeq(s, 1, Len(s) - 1)))

\* line 944: key=lambda x: x.get(self.sort_column, 0) or 0
SortKey(r, col) ==
    IF col = "pid" THEN r.pid
    ELSE IF col = "cpu_percent" THEN r.cpu_percent
    ELSE MemKey(r)

\* list.sort is stable, with reverse=True too: r goes after every element that
\* does not come after it in the order asked for
RECURSIVE InsertBy(_, _, _, _)
InsertBy(r, s, col, rev) ==
    IF s = <<>> THEN <<r>>
    ELSE IF (rev /\ SortKey(Head(s), col) >= SortKey(r, col))
             \/ (~rev /\ SortKey(Head(s), col) <= SortKey(r, col))
         THEN <<Head(s)>> \o InsertBy(r, Tail(s), col, rev)
         ELSE <<r>> \o s

RECURSIVE SortedBy(_, _, _)
SortedBy(s, col, rev) ==
    IF s = <<>> THEN <<>>
    ELSE InsertBy(s[Len(s)], SortedBy(SubSeq(s, 1, Len(s) - 1), col, rev), col, rev)

\* ---- initial state ----------------------------------------------------------
DefaultMem == [p \in Pids |-> IF p = 1 THEN None ELSE 2]

NoCall == [at |-> 0, seen_ts |-> 0, stale |-> FALSE]

NoPrev == [id |-> -1, ts |-> 0, at |-> 0, hit |-> FALSE, same |-> FALSE]

\* no cycle_view_mode call since the view mode was last set otherwise
NoCycle == [from |-> "none", n |-> 0]

\* no set_view_mode call since the program started or since the last
\* cycle_view_mode call
NoAsk == [from |-> "none", mode |-> "none"]

\* lines 588-621: the frame update_view_mode packs for a mode
FrameOf(mode) ==
    IF mode = "minimal" THEN "minimal_frame"
    ELSE IF mode = "compact" THEN "compact_frame"
    ELSE "detailed_frame"

NoPm == [op |-> "none", pid |-> 0, result |-> "none", calls |-> <<>>,
         running |-> "unknown", term_at |-> 0, check_at |-> 0, was_stopped |-> FALSE]

\* SystemMonitor.__init__ (lines 49-55) and ByteDogApp.__init__ up to
\* setup_ui (lines 286-314)
InitFields ==
    /\ now = TTL
    /\ stopped = {}
    /\ process_cache = 0
    /\ last_process_update = 0
    /\ update_interval = DefaultInterval
    /\ heap = [i \in Ids |-> <<>>]
    /\ nextId = 0
    /\ data_queue = <<>>
    /\ use_cache = [t \in Threads |-> FALSE]
    /\ processes = [t \in Threads |-> <<>>]
    /\ ret = [t \in Threads |-> 0]
    /\ call = NoCall
    /\ prev = NoPrev
    /\ dirty = FALSE
    /\ stamped = 0
    /\ s_wake = 0
    /\ ticks = 0
    /\ s_err = "none"
    /\ s_put = FALSE
    /\ s_list = 0
    /\ ui_op = "none"
    /\ ui_caller = "none"
    /\ uiOps = 0
    /\ cycled = NoCycle
    /\ asked = NoAsk
    /\ sort_column = "memory_percent"
    /\ sort_reverse = TRUE
    /\ search_term = ""
    /\ pm = NoPm
    /\ pm_wake = 0

\* the event loop is running (line 1424): the constructor has drawn the
\* performance graph once (line 766, in the minimal view, so line 1114 did
\* not schedule it again) and started the sampler (line 317); process_queue
\* (line 1223) and schedule_metric_updates (line 1421) are scheduled
InitProgram ==
    /\ InitFields
    /\ pc = [t \in Threads |-> IF t = "sampler" THEN "tick" ELSE "idle"]
    /\ timers = {"process_queue", "schedule_metric_updates"}
    /\ cpu_history = 1
    /\ ram_history = 1

\* line 289: the application starts in the minimal view
Init ==
    /\ InitProgram
    /\ view_mode = "minimal"
    /\ packed = FrameOf(view_mode)
    /\ alive = Pids
    /\ os_mem = DefaultMem

\* ---- the clock and the OS ---------------------------------------------------
Tick ==
    /\ now < MaxTime
    /\ now' = now + 1
    /\ UNCHANGED <<osVars, cacheVars, ghostVars, update_interval, pc, use_cache,
                   processes, ret, samplerVars, queueVars, uiVars, pmVars>>

\* time does not stop at MaxTime while a time.sleep is in progress
SleeperWaiting ==
    \/ pc["sampler"] = "sleeping" /\ now < s_wake
    \/ pc["ui"] = "k_sleeping" /\ now < pm_wake

TickWhileSleeping ==
    /\ now >= MaxTime
    /\ SleeperWaiting
    /\ now' = now + 1
    /\ UNCHANGED <<osVars, cacheVars, ghostVars, update_interval, pc, use_cache,
                   processes, ret, samplerVars, queueVars, uiVars, pmVars>>

\* the time that passes during a time.sleep, the only time that matters to
\* a run in which nothing else reads the clock
SleepTick ==
    /\ SleeperWaiting
    /\ now' = now + 1
    /\ UNCHANGED <<osVars, cacheVars, ghostVars, update_interval, pc, use_cache,
                   processes, ret, samplerVars, queueVars, uiVars, pmVars>>

\* a process exits on its own
OsExit ==
    /\ \E p \in alive :
          /\ alive' = alive \ {p}
          /\ stopped' = stopped \ {p}
    /\ UNCHANGED <<now, os_mem, cacheVars, ghostVars, update_interval, pc, use_cache,
                   processes, ret, samplerVars, queueVars, uiVars, pmVars>>

\* ---- SystemMonitor.get_process_list, run by thread t ------------------------
\* where thread t continues after get_process_list returns
AfterReturn(t) ==
    IF t = "sampler" THEN "put"
    ELSE IF ui_caller = "update_process_list" THEN "upl_sort"
    ELSE "show"

\* (variant) the cache is given up one clock unit early
CacheFreshOffByOne == heap[process_cache] # <<>> /\ now - last_process_update < TTL - 1

\* line 130: the cache is used if it is not empty and younger than 2 s
CacheFresh == heap[process_cache] # <<>> /\ now - last_process_update < TTL

\* a get_process_list(use_cache=True) call returns: remember when it was
\* made, what it returned, whether line 131 returned it and whether the call
\* before returned the same list with the same timestamp
Remember(t, id, ts, hit) ==
    IF use_cache[t]
    THEN /\ prev' = [id |-> id, ts |-> ts, at |-> call.at, hit |-> hit,
                     same |-> (id = prev.id /\ ts = prev.ts)]
         /\ call' = NoCall
         /\ dirty' = FALSE
    ELSE UNCHANGED <<call, prev, dirty>>

\* (variant) line 130 tests the age of the entry only
GplCheckIgnoresEmpty(t) ==
    /\ pc[t] = "gpl_check"
    /\ pc' = [pc EXCEPT ![t] = IF use_cache[t] /\ now - last_process_update < TTL
                               THEN "gpl_hit" ELSE "gpl_enum"]
    /\ call' = IF use_cache[t]
               THEN [at |-> now, seen_ts |-> last_process_update,
                     stale |-> (heap[process_cache] # <<>>
                                /\ now - last_process_update >= TTL)]
               ELSE call
    /\ UNCHANGED <<clockVars, osVars, cacheVars, prev, dirty, update_interval, use_cache,
                   processes, ret, samplerVars, queueVars, uiVars, pmVars,
                   stamped>>

\* line 130
GplCheck(t) ==
    /\ pc[t] = "gpl_check"
    /\ pc' = [pc EXCEPT ![t] = IF use_cache[t] /\ CacheFresh THEN "gpl_hit" ELSE "gpl_enum"]
    /\ call' = IF use_cache[t]
               THEN [at |-> now, seen_ts |-> last_process_update,
                     stale |-> (heap[process_cache] # <<>>
                                /\ now - last_process_update >= TTL)]
               ELSE call
    /\ UNCHANGED <<clockVars, osVars, cacheVars, prev, dirty, update_interval, use_cache,
                   processes, ret, samplerVars, queueVars, uiVars, pmVars,
                   stamped>>

\* (variant) a hit that returns a copy of the cached list
GplHitCopy(t) ==
    /\ pc[t] = "gpl_hit"
    /\ nextId < MaxIds
    /\ nextId' = nextId + 1
    /\ heap' = [heap EXCEPT ![nextId + 1] = heap[process_cache]]
    /\ ret' = [ret EXCEPT ![t] = nextId + 1]
    /\ Remember(t, nextId + 1, last_process_update, TRUE)
    /\ pc' = [pc EXCEPT ![t] = AfterReturn(t)]
    /\ UNCHANGED <<clockVars, osVars, process_cache, last_process_update,
                   update_interval, use_cache, processes, samplerVars, queueVars,
                   uiVars, pmVars,
                   stamped>>

\* line 131: return self.process_cache
GplHit(t) ==
    /\ pc[t] = "gpl_hit"
    /\ ret' = [ret EXCEPT ![t] = process_cache]
    /\ Remember(t, process_cache, last_process_update, TRUE)
    /\ pc' = [pc EXCEPT ![t] = AfterReturn(t)]
    /\ UNCHANGED <<clockVars, osVars, cacheVars, update_interval, use_cache,
                   processes, samplerVars, queueVars, uiVars, pmVars,
                   stamped>>

\* lines 133-141: enumerate the process table
GplEnum(t) ==
    /\ pc[t] = "gpl_enum"
    /\ processes' = [processes EXCEPT ![t] = Enumerate]
    /\ pc' = [pc EXCEPT ![t] = "gpl_store"]
    /\ UNCHANGED <<clockVars, osVars, cacheVars, ghostVars, update_interval, use_cache,
                   ret, samplerVars, queueVars, uiVars, pmVars>>

\* line 143: self.process_cache = sorted(processes, ...); the local list is
\* not used again
GplStore(t) ==
    /\ pc[t] = "gpl_store"
    /\ nextId' = nextId + 1
    /\ heap' = [heap EXCEPT ![nextId + 1] = SortedByMemoryDesc(processes[t])]
    /\ process_cache' = nextId + 1
    /\ processes' = [processes EXCEPT ![t] = <<>>]
    /\ dirty' = TRUE
    /\ s_list' = IF t = "sampler" THEN nextId + 1 ELSE s_list
    /\ pc' = [pc EXCEPT ![t] = "gpl_stamp"]
    /\ UNCHANGED <<clockVars, osVars, last_process_update, call, prev, update_interval,
                   use_cache, ret, s_wake, ticks, s_err, s_put, queueVars, uiVars,
                   pmVars, stamped>>

\* (variant) line 144 left out: the timestamp of the entry is not renewed
GplStampSkipped(t) ==
    /\ pc[t] = "gpl_stamp"
    /\ pc' = [pc EXCEPT ![t] = "gpl_return"]
    /\ UNCHANGED <<clockVars, osVars, cacheVars, ghostVars, update_interval, use_cache,
                   processes, ret, samplerVars, queueVars, uiVars, pmVars>>

\* line 144: self.last_process_update = time.time()
GplStamp(t) ==
    /\ pc[t] = "gpl_stamp"
    /\ last_process_update' = now
    /\ dirty' = TRUE
    /\ stamped' = process_cache
    /\ pc' = [pc EXCEPT ![t] = "gpl_return"]
    /\ UNCHANGED <<clockVars, osVars, process_cache, heap, nextId, call, prev,
                   update_interval, use_cache, processes, ret, samplerVars,
                   queueVars, uiVars, pmVars>>

\* line 145: return self.process_cache
GplReturn(t) ==
    /\ pc[t] = "gpl_return"
    /\ ret' = [ret EXCEPT ![t] = process_cache]
    /\ Remember(t, process_cache, last_process_update, FALSE)
    /\ pc' = [pc EXCEPT ![t] = AfterReturn(t)]
    /\ UNCHANGED <<clockVars, osVars, cacheVars, update_interval, use_cache,
                   processes, samplerVars, queueVars, uiVars, pmVars,
                   stamped>>

\* ---- the sampler thread: monitor_loop ---------------------------------------
\* (variant) a tick is started by a timer, whether the tick before is over or not
SamplerCollectOverlapping ==
    /\ pc["sampler"] \in {"tick", "sleeping"}
    /\ ticks < MaxTicks
    /\ ticks' = ticks + 1
    /\ s_err' = "none"
    /\ s_put' = FALSE
    /\ s_list' = 0
    /\ s_wake' = 0
    /\ use_cache' = [use_cache EXCEPT !["sampler"] = FALSE]
    /\ pc' = [pc EXCEPT !["sampler"] = "gpl_check"]
    /\ UNCHANGED <<clockVars, osVars, cacheVars, ghostVars, update_interval, processes,
                   ret, queueVars, uiVars, pmVars>>

\* lines 1193-1196: get_cpu_usage() and get_memory_info() succeed, then
\* get_process_list(use_cache=False) is called
SamplerCollect ==
    /\ pc["sampler"] = "tick"
    /\ ticks < MaxTicks
    /\ ticks' = ticks + 1
    /\ s_err' = "none"
    /\ s_put' = FALSE
    /\ s_list' = 0
    /\ use_cache' = [use_cache EXCEPT !["sampler"] = FALSE]
    /\ pc' = [pc EXCEPT !["sampler"] = "gpl_check"]
    /\ UNCHANGED <<clockVars, osVars, cacheVars, ghostVars, update_interval, processes,
                   ret, s_wake, queueVars, uiVars, pmVars>>

\* lines 1194-1195: a metric query raises
SamplerCollectFails ==
    /\ pc["sampler"] = "tick"
    /\ ticks < MaxTicks
    /\ ticks' = ticks + 1
    /\ s_err' = "metric_query"
    /\ s_put' = FALSE
    /\ s_list' = 0
    /\ pc' = [pc EXCEPT !["sampler"] = "except"]
    /\ UNCHANGED <<clockVars, osVars, cacheVars, ghostVars, update_interval, use_cache,
                   processes, ret, s_wake, queueVars, uiVars, pmVars>>

\* line 134: the enumeration raises something other than NoSuchProcess or
\* AccessDenied; get_process_list is left without touching the cache
SamplerEnumFails ==
    /\ pc["sampler"] = "gpl_enum"
    /\ s_err' = "process_iter"
    /\ pc' = [pc EXCEPT !["sampler"] = "except"]
    /\ UNCHANGED <<clockVars, osVars, cacheVars, ghostVars, update_interval, use_cache,
                   processes, ret, s_wake, ticks, s_put, s_list, queueVars, uiVars, pmVars>>

\* (variant) put on a queue of capacity 1 waits for a free slot
SamplerPutBlocking ==
    /\ pc["sampler"] = "put"
    /\ Len(data_queue) < 1
    /\ data_queue' = Append(data_queue, [processes |-> ret["sampler"]])
    /\ ret' = [ret EXCEPT !["sampler"] = 0]
    /\ s_put' = TRUE
    /\ s_list' = 0
    /\ pc' = [pc EXCEPT !["sampler"] = "sleep"]
    /\ UNCHANGED <<clockVars, osVars, cacheVars, ghostVars, update_interval, use_cache,
                   processes, s_wake, ticks, s_err, uiVars, pmVars>>

\* line 1203: self.data_queue.put(data) on queue.Queue() (no maxsize); `data`
\* is dropped by the next iteration
SamplerPut ==
    /\ pc["sampler"] = "put"
    /\ data_queue' = Append(data_queue, [processes |-> ret["sampler"]])
    /\ ret' = [ret EXCEPT !["sampler"] = 0]
    /\ s_put' = TRUE
    /\ s_list' = 0
    /\ pc' = [pc EXCEPT !["sampler"] = "sleep"]
    /\ UNCHANGED <<clockVars, osVars, cacheVars, ghostVars, update_interval, use_cache,
                   processes, s_wake, ticks, s_err, uiVars, pmVars>>

\* (variant) the handler leaves the loop
SamplerExceptLeaves ==
    /\ pc["sampler"] = "except"
    /\ pc' = [pc EXCEPT !["sampler"] = "returned"]
    /\ UNCHANGED <<clockVars, osVars, cacheVars, ghostVars, update_interval, use_cache,
                   processes, ret, samplerVars, queueVars, uiVars, pmVars>>

\* lines 1204-1205: except Exception: print(...)
SamplerExcept ==
    /\ pc["sampler"] = "except"
    /\ pc' = [pc EXCEPT !["sampler"] = "sleep"]
    /\ UNCHANGED <<clockVars, osVars, cacheVars, ghostVars, update_interval, use_cache,
                   processes, ret, samplerVars, queueVars, uiVars, pmVars>>

\* line 1207: time.sleep(self.monitor.update_interval) begins
SamplerSleep ==
    /\ pc["sampler"] = "sleep"
    /\ s_wake' = now + update_interval
    /\ pc' = [pc EXCEPT !["sampler"] = "sleeping"]
    /\ UNCHANGED <<clockVars, osVars, cacheVars, ghostVars, update_interval, use_cache,
                   processes, ret, ticks, s_err, s_put, s_list, queueVars, uiVars, pmVars>>

\* line 1207: the sleep ends; back to `while True`
SamplerWake ==
    /\ pc["sampler"] = "sleeping"
    /\ now >= s_wake
    /\ s_wake' = 0
    /\ pc' = [pc EXCEPT !["sampler"] = "tick"]
    /\ UNCHANGED <<clockVars, osVars, cacheVars, ghostVars, update_interval, use_cache,
                   processes, ret, ticks, s_err, s_put, s_list, queueVars, uiVars, pmVars>>

SamplerGpl ==
    \/ GplCheck("sampler")
    \/ GplEnum("sampler")
    \/ GplStore("sampler")
    \/ GplStamp("sampler")
    \/ GplReturn("sampler")

SamplerStep ==
    \/ SamplerCollect
    \/ SamplerCollectFails
    \/ SamplerEnumFails
    \/ SamplerGpl
    \/ SamplerPut
    \/ SamplerExcept
    \/ SamplerSleep
    \/ SamplerWake

\* ---- the event loop (Tk main thread): one callback at a time ----------------
\* the function called by update_metrics or by a button is over: process_queue
\* goes on with its loop, any other callback returns to the event loop
UiFinish ==
    IF ui_op = "process_queue"
    THEN /\ pc' = [pc EXCEPT !["ui"] = "pq_get"]
         /\ ui_caller' = "none"
         /\ UNCHANGED <<ui_op, timers>>
    ELSE /\ pc' = [pc EXCEPT !["ui"] = "idle"]
         /\ ui_caller' = "none"
         /\ ui_op' = "none"
         /\ timers' = IF ui_op = "schedule_metric_updates"
                      THEN timers \cup {"schedule_metric_updates"}
                      ELSE timers

\* lines 1212-1223: process_queue starts (root.after(1000, ...))
UiProcessQueue ==
    /\ pc["ui"] = "idle"
    /\ "process_queue" \in timers
    /\ uiOps < MaxUiOps
    /\ uiOps' = uiOps + 1
    /\ ui_op' = "process_queue"
    /\ timers' = timers \ {"process_queue"}
    /\ pc' = [pc EXCEPT !["ui"] = "pq_get"]
    /\ UNCHANGED <<clockVars, osVars, cacheVars, update_interval, use_cache,
                   processes, ret, ghostVars, samplerVars, queueVars, ui_caller,
                   view_mode, viewVars, cpu_history, ram_history, pmVars,
                   sortVars>>

\* lines 1215-1218: data = self.data_queue.get_nowait(); self.update_metrics()
UiQueueGet ==
    /\ pc["ui"] = "pq_get"
    /\ data_queue # <<>>
    /\ data_queue' = Tail(data_queue)
    /\ pc' = [pc EXCEPT !["ui"] = "update_metrics"]
    /\ UNCHANGED <<clockVars, osVars, cacheVars, update_interval, use_cache,
                   processes, ret, ghostVars, samplerVars, uiVars, pmVars>>

\* (variant) queue.Empty ends process_queue before line 1223
UiQueueEmptyNoReschedule ==
    /\ pc["ui"] = "pq_get"
    /\ data_queue = <<>>
    /\ pc' = [pc EXCEPT !["ui"] = "idle"]
    /\ ui_op' = "none"
    /\ UNCHANGED <<clockVars, osVars, cacheVars, update_interval, use_cache,
                   processes, ret, ghostVars, samplerVars, queueVars, ui_caller, uiOps,
                   view_mode, viewVars, schedVars, pmVars, sortVars>>

\* lines 1219-1223: queue.Empty ends the loop; process_queue is re-scheduled
UiQueueEmpty ==
    /\ pc["ui"] = "pq_get"
    /\ data_queue = <<>>
    /\ pc' = [pc EXCEPT !["ui"] = "idle"]
    /\ ui_op' = "none"
    /\ timers' = timers \cup {"process_queue"}
    /\ UNCHANGED <<clockVars, osVars, cacheVars, update_interval, use_cache,
                   processes, ret, ghostVars, samplerVars, queueVars, ui_caller, uiOps,
                   view_mode, viewVars, cpu_history, ram_history, pmVars,
                   sortVars>>

\* lines 1427-1430: schedule_metric_updates calls update_metrics every 2 s
UiScheduleMetricUpdates ==
    /\ pc["ui"] = "idle"
    /\ "schedule_metric_updates" \in timers
    /\ uiOps < MaxUiOps
    /\ uiOps' = uiOps + 1
    /\ ui_op' = "schedule_metric_updates"
    /\ timers' = timers \ {"schedule_metric_updates"}
    /\ pc' = [pc EXCEPT !["ui"] = "update_metrics"]
    /\ UNCHANGED <<clockVars, osVars, cacheVars, update_interval, use_cache,
                   processes, ret, ghostVars, samplerVars, queueVars, ui_caller,
                   view_mode, viewVars, cpu_history, ram_history, pmVars,
                   sortVars>>

\* lines 978-1044: update_metrics; the minimal view shows no process list, the
\* compact view calls update_simple_process_display (line 961) and the
\* detailed view update_process_list (line 936), both with use_cache=True
UiUpdateMetrics ==
    /\ pc["ui"] = "update_metrics"
    /\ IF view_mode = "minimal"
       THEN /\ UiFinish
            /\ UNCHANGED use_cache
       ELSE /\ pc' = [pc EXCEPT !["ui"] = "gpl_check"]
            /\ use_cache' = [use_cache EXCEPT !["ui"] = TRUE]
            /\ ui_caller' = IF view_mode = "compact"
                            THEN "update_simple_process_display"
                            ELSE "update_process_list"
            /\ UNCHANGED <<ui_op, timers>>
    /\ UNCHANGED <<clockVars, osVars, cacheVars, update_interval, processes,
                   ret, ghostVars, samplerVars, queueVars, uiOps, view_mode, viewVars, cpu_history, ram_history, pmVars,
                   sortVars>>

\* (variant) line 944 sorts a copy of the list that get_process_list returned
UiSortCopy ==
    /\ pc["ui"] = "upl_sort"
    /\ heap' = heap
    /\ ret' = [ret EXCEPT !["ui"] = 0]
    /\ UiFinish
    /\ UNCHANGED <<clockVars, osVars, process_cache, last_process_update, nextId,
                   ghostVars, update_interval, use_cache, processes,
                   samplerVars, queueVars, uiOps, view_mode, viewVars, cpu_history, ram_history, pmVars,
                   sortVars>>

\* lines 939-944: with a search term, line 941 binds `processes` to a new
\* list and line 944 sorts that one; with none, processes.sort(key=...,
\* reverse=self.sort_reverse) sorts the list that get_process_list returned
\* in place
UiSortInPlace ==
    /\ pc["ui"] = "upl_sort"
    /\ heap' = IF search_term = ""
               THEN [heap EXCEPT ![ret["ui"]] = SortedBy(@, sort_column, sort_reverse)]
               ELSE heap
    /\ ret' = [ret EXCEPT !["ui"] = 0]
    /\ UiFinish
    /\ UNCHANGED <<clockVars, osVars, process_cache, last_process_update, nextId,
                   ghostVars, update_interval, use_cache, processes,
                   samplerVars, queueVars, uiOps, view_mode, viewVars, cpu_history, ram_history, pmVars,
                   sortVars>>

\* lines 963-976, 1250-1275, 1302-1304: the returned list is read (shown or
\* written out) and dropped
UiShow ==
    /\ pc["ui"] = "show"
    /\ ret' = [ret EXCEPT !["ui"] = 0]
    /\ UiFinish
    /\ UNCHANGED <<clockVars, osVars, cacheVars, ghostVars, update_interval, use_cache,
                   processes, samplerVars, queueVars, uiOps, view_mode, viewVars, cpu_history, ram_history, pmVars,
                   sortVars>>

\* lines 732-733, 834-838: the Refresh button of the detailed view
UiRefreshButton ==
    /\ pc["ui"] = "idle"
    /\ view_mode = "detailed"
    /\ uiOps < MaxUiOps
    /\ uiOps' = uiOps + 1
    /\ ui_op' = "refresh_processes"
    /\ pc' = [pc EXCEPT !["ui"] = "refresh"]
    /\ UNCHANGED <<clockVars, osVars, cacheVars, update_interval, use_cache,
                   processes, ret, ghostVars, samplerVars, queueVars, ui_caller,
                   view_mode, viewVars, schedVars, pmVars,
                   sortVars>>

\* lines 836-838: self.monitor.process_cache = []; self.update_process_list()
UiRefreshProcesses ==
    /\ pc["ui"] = "refresh"
    /\ process_cache' = 0
    /\ dirty' = TRUE
    /\ use_cache' = [use_cache EXCEPT !["ui"] = TRUE]
    /\ ui_caller' = "update_process_list"
    /\ pc' = [pc EXCEPT !["ui"] = "gpl_check"]
    /\ UNCHANGED <<clockVars, osVars, last_process_update, heap, nextId,
                   update_interval, processes, ret, call, prev, samplerVars, queueVars,
                   ui_op, uiOps, view_mode, viewVars, schedVars, pmVars,
                   sortVars, stamped>>

\* lines 1250 and 1302: export_data and generate_report (menu bar, hidden in
\* the minimal view) call get_process_list() with the default use_cache=False
UiExportOrReport ==
    /\ pc["ui"] = "idle"
    /\ view_mode # "minimal"
    /\ uiOps < MaxUiOps
    /\ uiOps' = uiOps + 1
    /\ ui_op' = "export_data"
    /\ ui_caller' = "export_data"
    /\ use_cache' = [use_cache EXCEPT !["ui"] = FALSE]
    /\ pc' = [pc EXCEPT !["ui"] = "gpl_check"]
    /\ UNCHANGED <<clockVars, osVars, cacheVars, update_interval, processes,
                   ret, ghostVars, samplerVars, queueVars, view_mode, viewVars, schedVars, pmVars,
                   sortVars>>

\* (variant) the modes are gone through in the opposite order
NextModeReversed(m) ==
    IF m = "minimal" THEN "detailed"
    ELSE IF m = "compact" THEN "minimal"
    ELSE "compact"

\* lines 570-576: the mode that follows m
NextMode(m) ==
    IF m = "minimal" THEN "compact"
    ELSE IF m = "compact" THEN "detailed"
    ELSE "minimal"

\* (variant) the last branch of cycle_view_mode goes back to compact
UiCycleViewModeNoWrap ==
    /\ pc["ui"] = "idle"
    /\ view_mode' = IF view_mode = "detailed" THEN "compact" ELSE NextMode(view_mode)
    /\ packed' = FrameOf(view_mode')
    /\ asked' = NoAsk
    /\ cycled' = IF cycled.n \in {0, 3} THEN [from |-> view_mode, n |-> 1]
                 ELSE [cycled EXCEPT !.n = @ + 1]
    /\ UNCHANGED <<clockVars, osVars, cacheVars, update_interval, pc,
                   use_cache, processes, ret, ghostVars, samplerVars, queueVars, ui_op,
                   ui_caller, uiOps, schedVars, pmVars, sortVars>>

\* lines 568-578: cycle_view_mode (the toggle buttons of the three frames),
\* update_view_mode included
UiCycleViewMode ==
    /\ pc["ui"] = "idle"
    /\ view_mode' = NextMode(view_mode)
    /\ packed' = FrameOf(view_mode')
    /\ asked' = NoAsk
    /\ cycled' = IF cycled.n \in {0, 3} THEN [from |-> view_mode, n |-> 1]
                 ELSE [cycled EXCEPT !.n = @ + 1]
    /\ UNCHANGED <<clockVars, osVars, cacheVars, update_interval, pc,
                   use_cache, processes, ret, ghostVars, samplerVars, queueVars, ui_op,
                   ui_caller, uiOps, schedVars, pmVars, sortVars>>

\* (variant) set_view_mode goes back to the default sort order of the tree
\* and drops the cached list
UiSetViewModeResetsSort ==
    /\ pc["ui"] = "idle"
    /\ \E mode \in {"minimal", "compact", "detailed"} :
          /\ view_mode' = mode
          /\ asked' = [from |-> view_mode, mode |-> mode]
    /\ packed' = FrameOf(view_mode')
    /\ cycled' = NoCycle
    /\ sort_column' = "memory_percent"
    /\ sort_reverse' = TRUE
    /\ process_cache' = 0
    /\ UNCHANGED <<clockVars, osVars, last_process_update, heap, nextId,
                   update_interval, pc, use_cache, processes, ret, ghostVars,
                   samplerVars, queueVars, ui_op, ui_caller, uiOps, schedVars, pmVars,
                   search_term>>

\* lines 791-794: set_view_mode(mode), from the View menu or the context
\* menu, update_view_mode included
UiSetViewMode ==
    /\ pc["ui"] = "idle"
    /\ \E mode \in {"minimal", "compact", "detailed"} :
          /\ view_mode' = mode
          /\ asked' = [from |-> view_mode, mode |-> mode]
    /\ packed' = FrameOf(view_mode')
    /\ cycled' = NoCycle
    /\ UNCHANGED <<clockVars, osVars, cacheVars, update_interval, pc,
                   use_cache, processes, ret, ghostVars, samplerVars, queueVars, ui_op,
                   ui_caller, uiOps, schedVars, pmVars, sortVars>>

\* lines 815-827: sort_processes(column), a click on a column heading of the
\* process tree; update_process_list follows
UiSortProcesses ==
    /\ pc["ui"] = "idle"
    /\ view_mode = "detailed"
    /\ uiOps < MaxUiOps
    /\ uiOps' = uiOps + 1
    /\ \E col \in {"pid", "cpu_percent", "memory_percent"} :
          IF sort_column = col
          THEN sort_reverse' = ~sort_reverse /\ sort_column' = sort_column
          ELSE sort_column' = col /\ sort_reverse' = TRUE
    /\ ui_op' = "sort_processes"
    /\ ui_caller' = "update_process_list"
    /\ use_cache' = [use_cache EXCEPT !["ui"] = TRUE]
    /\ pc' = [pc EXCEPT !["ui"] = "gpl_check"]
    /\ UNCHANGED <<clockVars, osVars, cacheVars, update_interval, processes, ret,
                   ghostVars, samplerVars, queueVars, view_mode, viewVars, schedVars,
                   search_term, pmVars>>

\* lines 747-748, 829-832: the search entry is edited; the trace on
\* search_var calls filter_processes, which calls update_process_list
UiFilterProcesses ==
    /\ pc["ui"] = "idle"
    /\ view_mode = "detailed"
    /\ uiOps < MaxUiOps
    /\ uiOps' = uiOps + 1
    /\ search_term' = IF search_term = "" THEN "a" ELSE ""
    /\ ui_op' = "filter_processes"
    /\ ui_caller' = "update_process_list"
    /\ use_cache' = [use_cache EXCEPT !["ui"] = TRUE]
    /\ pc' = [pc EXCEPT !["ui"] = "gpl_check"]
    /\ UNCHANGED <<clockVars, osVars, cacheVars, update_interval, processes, ret,
                   ghostVars, samplerVars, queueVars, view_mode, viewVars, schedVars,
                   sort_column, sort_reverse, pmVars>>

\* (variant) the new interval is applied to the sleep in progress too
UiSaveSettingsRetroactive ==
    /\ pc["ui"] = "idle"
    /\ \E v \in Intervals :
          /\ update_interval' = v
          /\ s_wake' = IF pc["sampler"] = "sleeping" THEN now + v ELSE s_wake
    /\ UNCHANGED <<clockVars, osVars, cacheVars, pc, use_cache, processes,
                   ret, ghostVars, ticks, s_err, s_put, s_list, queueVars, uiVars, pmVars>>

\* lines 1378-1379: save_settings
UiSaveSettings ==
    /\ pc["ui"] = "idle"
    /\ \E v \in Intervals : update_interval' = v
    /\ UNCHANGED <<clockVars, osVars, cacheVars, pc, use_cache, processes,
                   ret, ghostVars, samplerVars, queueVars, uiVars, pmVars>>

\* ---- ProcessManager, called by the buttons of the detailed view --------------
\* what the OS answers to a signal for pid p: psutil raises NoSuchProcess for
\* a pid that is gone and AccessDenied for a process of another owner (the
\* processes whose memory_percent cannot be read either)
OsOutcome(p) ==
    IF p \notin alive THEN "NoSuchProcess"
    ELSE IF os_mem[p] = None THEN "AccessDenied"
    ELSE "ok"

\* (variant) except psutil.NoSuchProcess only
CaughtNoSuchProcessOnly == {"NoSuchProcess"}

\* lines 161, 171, 181: except (psutil.NoSuchProcess, psutil.AccessDenied)
Caught == {"NoSuchProcess", "AccessDenied"}

\* the call ends with an exception of this kind raised inside the try block
PmRaise(op, kind) ==
    /\ pm' = [pm EXCEPT !.calls = Append(@, [op |-> op, outcome |-> kind]),
                        !.result = IF kind \in Caught THEN "False" ELSE "raised"]
    /\ pc' = [pc EXCEPT !["ui"] = "pm_done"]

\* lines 855-865, 871-879, 885-893: kill_selected_process (confirmed with
\* "yes"), suspend_selected_process, resume_selected_process on the selected
\* row; the row may show a process that has exited since it was listed
UiProcessButton ==
    /\ pc["ui"] = "idle"
    /\ view_mode = "detailed"
    /\ uiOps < MaxUiOps
    /\ uiOps' = uiOps + 1
    /\ \E op \in {"kill_process", "suspend_process", "resume_process"}, p \in Pids :
          /\ ui_op' = op
          /\ pm' = [NoPm EXCEPT !.op = op, !.pid = p]
    /\ pc' = [pc EXCEPT !["ui"] = "pm_lookup"]
    /\ UNCHANGED <<clockVars, osVars, cacheVars, update_interval, use_cache,
                   processes, ret, ghostVars, samplerVars, queueVars, ui_caller,
                   view_mode, viewVars, schedVars, pm_wake,
                   sortVars>>

\* (variant) psutil.Process(pid) does not look the pid up
PmLookupUnchecked ==
    /\ pc["ui"] = "pm_lookup"
    /\ pc' = [pc EXCEPT !["ui"] = IF pm.op = "kill_process" THEN "k_terminate"
                                  ELSE "pm_directive"]
    /\ UNCHANGED <<clockVars, osVars, cacheVars, update_interval, use_cache,
                   processes, ret, ghostVars, samplerVars, queueVars, uiVars, pmVars>>

\* lines 155, 168, 178: proc = psutil.Process(pid)
PmLookup ==
    /\ pc["ui"] = "pm_lookup"
    /\ IF pm.pid \in alive
       THEN /\ pc' = [pc EXCEPT !["ui"] = IF pm.op = "kill_process" THEN "k_terminate"
                                         ELSE "pm_directive"]
            /\ pm' = pm
       ELSE PmRaise("Process", "NoSuchProcess")
    /\ UNCHANGED <<clockVars, osVars, cacheVars, update_interval, use_cache,
                   processes, ret, ghostVars, samplerVars, queueVars, uiVars, pm_wake>>

\* line 156: proc.terminate()
KillTerminate ==
    /\ pc["ui"] = "k_terminate"
    /\ IF OsOutcome(pm.pid) = "ok"
       THEN /\ pm' = [pm EXCEPT !.calls = Append(@, [op |-> "terminate", outcome |-> "ok"]),
                                !.term_at = now]
            /\ pc' = [pc EXCEPT !["ui"] = "k_sleep"]
       ELSE PmRaise("terminate", OsOutcome(pm.pid))
    /\ UNCHANGED <<clockVars, osVars, cacheVars, update_interval, use_cache,
                   processes, ret, ghostVars, samplerVars, queueVars, uiVars, pm_wake>>

\* line 157: time.sleep(0.5) begins
KillSleep ==
    /\ pc["ui"] = "k_sleep"
    /\ pm_wake' = now + GracePeriod
    /\ pc' = [pc EXCEPT !["ui"] = "k_sleeping"]
    /\ UNCHANGED <<clockVars, osVars, cacheVars, update_interval, use_cache,
                   processes, ret, ghostVars, samplerVars, queueVars, uiVars, pm>>

\* (variant) proc.is_running() is asked without waiting for the sleep to end
KillIsRunningNoWait ==
    /\ pc["ui"] = "k_sleeping"
    /\ IF pm.pid \in alive
       THEN /\ pm' = [pm EXCEPT !.running = "True", !.check_at = now,
                                !.calls = Append(@, [op |-> "is_running", outcome |-> "ok"])]
            /\ pc' = [pc EXCEPT !["ui"] = "k_kill"]
       ELSE /\ pm' = [pm EXCEPT !.running = "False", !.check_at = now,
                                !.calls = Append(@, [op |-> "is_running", outcome |-> "ok"]),
                                !.result = "True"]
            /\ pc' = [pc EXCEPT !["ui"] = "pm_done"]
    /\ UNCHANGED <<clockVars, osVars, cacheVars, update_interval, use_cache,
                   processes, ret, ghostVars, samplerVars, queueVars, uiVars, pm_wake>>

\* lines 158, 160: after the sleep, proc.is_running(); return True if it is not
KillIsRunning ==
    /\ pc["ui"] = "k_sleeping"
    /\ now >= pm_wake
    /\ IF pm.pid \in alive
       THEN /\ pm' = [pm EXCEPT !.running = "True", !.check_at = now,
                                !.calls = Append(@, [op |-> "is_running", outcome |-> "ok"])]
            /\ pc' = [pc EXCEPT !["ui"] = "k_kill"]
       ELSE /\ pm' = [pm EXCEPT !.running = "False", !.check_at = now,
                                !.calls = Append(@, [op |-> "is_running", outcome |-> "ok"]),
                                !.result = "True"]
            /\ pc' = [pc EXCEPT !["ui"] = "pm_done"]
    /\ UNCHANGED <<clockVars, osVars, cacheVars, update_interval, use_cache,
                   processes, ret, ghostVars, samplerVars, queueVars, uiVars, pm_wake>>

\* (variant) kill_process empties the process cache once the process is killed
KillKillInvalidates ==
    /\ pc["ui"] = "k_kill"
    /\ IF OsOutcome(pm.pid) = "ok"
       THEN /\ alive' = alive \ {pm.pid}
            /\ stopped' = stopped \ {pm.pid}
            /\ process_cache' = 0
            /\ last_process_update' = 0
            /\ pm' = [pm EXCEPT !.calls = Append(@, [op |-> "kill", outcome |-> "ok"]),
                                !.result = "True"]
            /\ pc' = [pc EXCEPT !["ui"] = "pm_done"]
       ELSE /\ PmRaise("kill", OsOutcome(pm.pid))
            /\ UNCHANGED <<alive, stopped, process_cache, last_process_update>>
    /\ UNCHANGED <<clockVars, os_mem, heap, nextId, update_interval, use_cache,
                   processes, ret, ghostVars, samplerVars, queueVars, uiVars, pm_wake>>

\* lines 159-160: proc.kill(); return True
KillKill ==
    /\ pc["ui"] = "k_kill"
    /\ IF OsOutcome(pm.pid) = "ok"
       THEN /\ alive' = alive \ {pm.pid}
            /\ stopped' = stopped \ {pm.pid}
            /\ pm' = [pm EXCEPT !.calls = Append(@, [op |-> "kill", outcome |-> "ok"]),
                                !.result = "True"]
            /\ pc' = [pc EXCEPT !["ui"] = "pm_done"]
       ELSE /\ PmRaise("kill", OsOutcome(pm.pid))
            /\ UNCHANGED <<alive, stopped>>
    /\ UNCHANGED <<clockVars, os_mem, cacheVars, update_interval, use_cache,
                   processes, ret, ghostVars, samplerVars, queueVars, uiVars, pm_wake>>

\* (variant) resume_process sends the directive a second time
PmDirectiveTwice ==
    /\ pc["ui"] = "pm_directive"
    /\ LET d == IF pm.op = "suspend_process" THEN "suspend" ELSE "resume" IN
       IF OsOutcome(pm.pid) = "ok"
       THEN /\ stopped' = IF d = "suspend" THEN stopped \cup {pm.pid}
                          ELSE stopped \ {pm.pid}
            /\ pm' = [pm EXCEPT !.calls = IF d = "resume"
                                          THEN @ \o <<[op |-> d, outcome |-> "ok"],
                                                      [op |-> d, outcome |-> "ok"]>>
                                          ELSE Append(@, [op |-> d, outcome |-> "ok"]),
                                !.result = "True",
                                !.was_stopped = (pm.pid \in stopped)]
            /\ pc' = [pc EXCEPT !["ui"] = "pm_done"]
       ELSE /\ PmRaise(d, OsOutcome(pm.pid))
            /\ UNCHANGED stopped
    /\ UNCHANGED <<clockVars, alive, os_mem, cacheVars, update_interval,
                   use_cache, processes, ret, ghostVars, samplerVars, queueVars, uiVars,
                   pm_wake>>

\* lines 169-170, 179-180: proc.suspend() / proc.resume(); return True
PmDirective ==
    /\ pc["ui"] = "pm_directive"
    /\ LET d == IF pm.op = "suspend_process" THEN "suspend" ELSE "resume" IN
       IF OsOutcome(pm.pid) = "ok"
       THEN /\ stopped' = IF d = "suspend" THEN stopped \cup {pm.pid}
                          ELSE stopped \ {pm.pid}
            /\ pm' = [pm EXCEPT !.calls = Append(@, [op |-> d, outcome |-> "ok"]),
                                !.result = "True",
                                !.was_stopped = (pm.pid \in stopped)]
            /\ pc' = [pc EXCEPT !["ui"] = "pm_done"]
       ELSE /\ PmRaise(d, OsOutcome(pm.pid))
            /\ UNCHANGED stopped
    /\ UNCHANGED <<clockVars, alive, os_mem, cacheVars, update_interval,
                   use_cache, processes, ret, ghostVars, samplerVars, queueVars, uiVars,
                   pm_wake>>

\* lines 865-869, 879-883, 893-897: the status text, then refresh_processes();
\* an exception that left the ProcessManager call ends the callback instead
PmDone ==
    /\ pc["ui"] = "pm_done"
    /\ pc' = [pc EXCEPT !["ui"] = IF pm.result = "raised" THEN "idle" ELSE "refresh"]
    /\ ui_op' = IF pm.result = "raised" THEN "none" ELSE ui_op
    /\ pm' = NoPm
    /\ pm_wake' = 0
    /\ UNCHANGED <<clockVars, osVars, cacheVars, update_interval, use_cache,
                   processes, ret, ghostVars, samplerVars, queueVars, ui_caller, uiOps,
                   view_mode, viewVars, schedVars,
                   sortVars>>

PmStep ==
    \/ UiProcessButton
    \/ PmLookup
    \/ KillTerminate
    \/ KillSleep
    \/ KillIsRunning
    \/ KillKill
    \/ PmDirective
    \/ PmDone

UiGpl ==
    \/ GplCheck("ui")
    \/ GplHit("ui")
    \/ GplEnum("ui")
    \/ GplStore("ui")
    \/ GplStamp("ui")
    \/ GplReturn("ui")

\* ---- the sampler alone: nothing reads data_queue ----------------------------
NextSampler == Tick \/ TickWhileSleeping \/ SamplerStep

SamplerSpec ==
    /\ Init
    /\ [][NextSampler]_vars
    /\ WF_vars(Tick \/ TickWhileSleeping)
    /\ WF_vars(SamplerStep)

\* ---- the program ------------------------------------------------------------
UiStep ==
    \/ UiProcessQueue
    \/ UiQueueGet
    \/ UiQueueEmpty
    \/ UiScheduleMetricUpdates
    \/ UiUpdateMetrics
    \/ UiSortInPlace
    \/ UiShow
    \/ UiRefreshButton
    \/ UiRefreshProcesses
    \/ UiExportOrReport
    \/ UiCycleViewMode
    \/ UiSetViewMode
    \/ UiSortProcesses
    \/ UiFilterProcesses
    \/ UiSaveSettings
    \/ PmStep
    \/ UiGpl

Next == Tick \/ TickWhileSleeping \/ OsExit \/ SamplerStep \/ UiStep

Spec == Init /\ [][Next]_vars

\* ---- the cache under the sampler and the process lists of the event loop ----
\* the detailed view is showing (after cycle_view_mode or set_view_mode)
InitCache ==
    /\ InitProgram
    /\ view_mode = "detailed"
    /\ packed = FrameOf(view_mode)
    /\ alive = Pids
    /\ os_mem = DefaultMem

NextCache ==
    \/ Tick
    \/ SamplerCollect
    \/ SamplerGpl
    \/ SamplerPut
    \/ SamplerSleep
    \/ SamplerWake
    \/ UiScheduleMetricUpdates
    \/ UiUpdateMetrics
    \/ UiSortInPlace
    \/ UiShow
    \/ UiRefreshButton
    \/ UiRefreshProcesses
    \/ UiExportOrReport
    \/ UiGpl

CacheSpec == InitCache /\ [][NextCache]_vars

\* ==== the cache (CacheSpec) ===================================================
\* a step of the event loop inside get_process_list
UiLeaves(p) == pc["ui"] = p /\ pc'["ui"] # p

\* the step in which a get_process_list(use_cache=True) call returns
UiCachedReturn ==
    /\ use_cache["ui"]
    /\ UiLeaves("gpl_hit") \/ UiLeaves("gpl_return")

\* C1: get_process_list(use_cache=True), called when the cached list is not
\* empty and younger than the TTL, returns the cached list and neither
\* enumerates the processes nor assigns process_cache, its contents or
\* last_process_update
C1_FreshCacheReturnedUntouched ==
    [][ /\ (UiLeaves("gpl_check") /\ use_cache["ui"] /\ heap[process_cache] # <<>>
              /\ now - last_process_update < TTL)
           => /\ pc'["ui"] = "gpl_hit"
              /\ UNCHANGED <<process_cache, last_process_update, heap, processes>>
        /\ UiLeaves("gpl_hit")
           => /\ ret'["ui"] = process_cache
              /\ heap'[ret'["ui"]] = heap[process_cache]
              /\ UNCHANGED <<process_cache, last_process_update, heap, processes>>
      ]_vars

\* C1 witness: update_process_list holds a non-empty list that line 131 returned
C1_Witness ==
    /\ pc["ui"] = "upl_sort"
    /\ prev.hit
    /\ ret["ui"] = process_cache
    /\ heap[ret["ui"]] # <<>>

\* C2 as the spec states it: two get_process_list(use_cache=True) calls made
\* less than the TTL apart return the same list with the same timestamp
C2_CallsWithinTtlSameSnapshot ==
    [][ (UiCachedReturn /\ prev.id # -1 /\ call.at - prev.at < TTL)
           => /\ ret'["ui"] = prev.id
              /\ last_process_update' = prev.ts
      ]_vars

\* C2 amended: two consecutive get_process_list(use_cache=True) calls return
\* the same list with the same timestamp if the cache entry is not assigned
\* between the two returns (by a sampler tick, refresh_processes, export_data,
\* generate_report, or by the second call itself once the entry is empty or
\* its age has reached the TTL)
C2_UnassignedEntrySameSnapshot ==
    [][ (UiCachedReturn /\ prev.id # -1 /\ ~dirty)
           => /\ ret'["ui"] = prev.id
              /\ last_process_update' = prev.ts
      ]_vars

\* C2 witness: a call returned the list and the timestamp of the call before
C2_Witness ==
    /\ prev.same
    /\ prev.hit
    /\ heap[prev.id] # <<>>

\* C3: a get_process_list(use_cache=True) call that finds a non-empty entry
\* whose age is at least the TTL enumerates the processes, stores a new list
\* and a timestamp greater than that of the entry it found (and not less than
\* the one it overwrites)
C3_StaleEntryRecaptured ==
    [][ /\ (UiLeaves("gpl_check") /\ use_cache["ui"] /\ heap[process_cache] # <<>>
              /\ now - last_process_update >= TTL)
           => pc'["ui"] = "gpl_enum"
        /\ (UiLeaves("gpl_enum") /\ call.stale)
           => processes'["ui"] = Enumerate
        /\ (UiLeaves("gpl_store") /\ call.stale)
           => /\ process_cache' # process_cache
              /\ heap'[process_cache'] = SortedByMemoryDesc(processes["ui"])
        /\ (UiLeaves("gpl_stamp") /\ call.stale)
           => /\ last_process_update' > call.seen_ts
              /\ last_process_update' >= last_process_update
      ]_vars

\* C3 witness: a call that found a stale entry has stored its list and timestamp
C3_Witness ==
    /\ pc["ui"] = "gpl_return"
    /\ call.stale
    /\ last_process_update > call.seen_ts

\* ==== the sampler with no consumer (SamplerSpec) ===============================
\* C5: with nobody reading data_queue the sampler goes through all its ticks:
\* put never makes it wait, however many bundles are unread
C5_SamplerCompletesTicksUnread ==
    /\ <>(ticks = MaxTicks /\ pc["sampler"] = "tick")
    /\ (pc["sampler"] = "put") ~> (pc["sampler"] = "sleep")

\* C5 witness: every tick is over and each left a bundle that nobody read
C5_Witness ==
    /\ ticks = MaxTicks
    /\ pc["sampler"] = "tick"
    /\ Len(data_queue) = MaxTicks

\* a capacity smaller than the number of ticks of a run
HandoffCapacity == MaxTicks - 1

\* C6 as the spec states it: the number of unread bundles never exceeds a
\* fixed capacity
C6_QueueBounded == Len(data_queue) <= HandoffCapacity

\* C7: a tick in which a metric query or the enumeration raises enqueues no
\* bundle, and the loop goes on: it sleeps and comes back to start the next tick
C7_TickErrorSwallowed ==
    /\ [](s_err # "none" => ~s_put)
    /\ [](pc["sampler"] = "except" => s_err # "none")
    /\ \A n \in 1..MaxTicks :
          (pc["sampler"] = "except" /\ ticks = n)
             ~> (pc["sampler"] = "sleeping" /\ ticks = n /\ s_err # "none" /\ ~s_put)
    /\ \A n \in 1..MaxTicks :
          (pc["sampler"] = "except" /\ ticks = n)
             ~> (pc["sampler"] = "tick" /\ ticks = n /\ s_err # "none" /\ ~s_put)
    /\ \A n \in 1..(MaxTicks - 1) :
          (pc["sampler"] = "except" /\ ticks = n) ~> (ticks = n + 1)

\* C7 witness: a failed tick left no bundle and the loop is back at `while True`
C7_Witness ==
    /\ ticks = 1
    /\ s_err = "process_iter"
    /\ pc["sampler"] = "tick"
    /\ data_queue = <<>>

\* ---- one capture by each thread over every process table ---------------------
InitSort ==
    /\ InitProgram
    /\ view_mode = "detailed"
    /\ packed = FrameOf(view_mode)
    /\ alive \in SUBSET Pids
    /\ os_mem \in [Pids -> MemVals]

NextSort ==
    \/ SamplerCollect
    \/ SamplerGpl
    \/ SamplerPut
    \/ SamplerSleep
    \/ UiScheduleMetricUpdates
    \/ UiUpdateMetrics
    \/ UiGpl
    \/ UiSortInPlace

SortSpec == InitSort /\ [][NextSort]_vars

\* position of record r in the sequence s
Pos(s, r) == CHOOSE k \in DOMAIN s : s[k] = r

\* out holds the records of in, in descending order of memory_percent (None
\* counted as 0), records with equal keys in the order they have in in
IsStableDescSort(in, out) ==
    /\ Len(out) = Len(in)
    /\ {out[i] : i \in DOMAIN out} = {in[i] : i \in DOMAIN in}
    /\ \A i, j \in DOMAIN out :
          i < j => /\ MemKey(out[i]) >= MemKey(out[j])
                   /\ MemKey(out[i]) = MemKey(out[j]) => Pos(in, out[i]) < Pos(in, out[j])

\* C4: on a miss get_process_list stores the enumerated records in descending
\* order of memory_percent, None counted as 0 and equal keys kept in
\* enumeration order, and returns the stored list
C4_MissStoresStableDescendingSort ==
    [][ \A t \in Threads :
          /\ (pc[t] = "gpl_store" /\ pc'[t] # "gpl_store")
             => IsStableDescSort(processes[t], heap'[process_cache'])
          /\ (pc[t] = "gpl_return" /\ pc'[t] # "gpl_return")
             => /\ ret'[t] = process_cache
                /\ IsStableDescSort(Enumerate, heap'[ret'[t]])
      ]_vars

\* C4 witness: a miss returned a list that is not in enumeration order, with a
\* None key and two records of equal key
C4_Witness ==
    /\ pc["ui"] = "upl_sort"
    /\ ~prev.hit
    /\ heap[ret["ui"]] # Enumerate
    /\ \E i, j \in DOMAIN heap[ret["ui"]] :
          /\ i < j
          /\ MemKey(heap[ret["ui"]][i]) = MemKey(heap[ret["ui"]][j])
          /\ heap[ret["ui"]][i].memory_percent = None

\* ---- process control from the detailed view, the sampler left out -----------
InitControl ==
    /\ InitProgram
    /\ view_mode = "detailed"
    /\ packed = FrameOf(view_mode)
    /\ alive = Pids
    /\ os_mem = DefaultMem

NextControl ==
    \/ SleepTick
    \/ OsExit
    \/ PmStep
    \/ UiRefreshProcesses
    \/ GplCheck("ui")
    \/ GplEnum("ui")
    \/ GplStore("ui")
    \/ GplStamp("ui")
    \/ GplReturn("ui")
    \/ UiSortInPlace

ControlSpec == InitControl /\ [][NextControl]_vars

\* ==== process control (ControlSpec) ============================================
\* kill_process is about to return
KillReturns == pc["ui"] = "pm_done" /\ pm.op = "kill_process"

\* the psutil calls made so far by the ProcessManager method, in order
PmOps == [i \in DOMAIN pm.calls |-> pm.calls[i].op]

\* the call of this name was made and the OS accepted it
Accepted(op) == \E i \in DOMAIN pm.calls : pm.calls[i] = [op |-> op, outcome |-> "ok"]

\* C8: kill_process sends terminate first, asks is_running no sooner than the
\* grace period after it, and calls kill if and only if is_running said the
\* process was still running; if it had exited the result is True with no kill
C8_KillEscalatesAfterGracePeriod ==
    KillReturns =>
       /\ PmOps \in {<<"Process">>, <<"terminate">>, <<"terminate", "is_running">>,
                     <<"terminate", "is_running", "kill">>}
       /\ Len(PmOps) >= 2 => /\ Accepted("terminate")
                             /\ pm.check_at - pm.term_at >= GracePeriod
       /\ (Len(PmOps) = 3) <=> (pm.running = "True")
       /\ pm.running = "False" => (pm.result = "True" /\ Len(PmOps) = 2)

\* C8 witness: the process exited within the grace period and kill_process
\* returns True without having called kill
C8_Witness ==
    /\ KillReturns
    /\ pm.running = "False"
    /\ pm.result = "True"
    /\ PmOps = <<"terminate", "is_running">>
    /\ pm.check_at - pm.term_at = GracePeriod

\* C9 as the spec states it: kill_process returns True whenever terminate was
\* accepted or the process is gone, and False only when the process did not
\* exist or the caller had no permission when the call began
C9_KillSucceedsIffSignalAccepted ==
    KillReturns =>
       /\ (Accepted("terminate") \/ (pm.running = "False")) => pm.result = "True"
       /\ pm.result = "False" => ~Accepted("terminate")

\* C10: kill_process, suspend_process and resume_process return True or False
\* whatever the OS answers; no exception leaves them
C10_ControlCallsReturnBoolean ==
    pc["ui"] = "pm_done" => pm.result \in {"True", "False"}

\* C10 witness: the process vanished between is_running and kill, and
\* kill_process returns False
C10_Witness ==
    /\ KillReturns
    /\ pm.result = "False"
    /\ pm.calls[Len(pm.calls)] = [op |-> "kill", outcome |-> "NoSuchProcess"]


\* the OS accepted a signal or a directive sent by the call
Delivered ==
    \E i \in DOMAIN pm.calls :
       /\ pm.calls[i].op \in {"terminate", "kill", "suspend", "resume"}
       /\ pm.calls[i].outcome = "ok"

\* C11: kill_process on a pid that psutil.Process does not find returns False
\* without raising and without calling terminate or kill
C11_KillOfMissingPidFails ==
    [][ (pc["ui"] = "pm_lookup" /\ pc'["ui"] # "pm_lookup"
           /\ pm.op = "kill_process" /\ pm.pid \notin alive)
          => /\ pc'["ui"] = "pm_done"
             /\ pm'.result = "False"
             /\ pm'.calls = <<[op |-> "Process", outcome |-> "NoSuchProcess"]>>
             /\ UNCHANGED <<alive, stopped>>
      ]_vars

\* C11 witness: kill_process returns False for a pid that was not found
C11_Witness ==
    /\ KillReturns
    /\ pm.pid \notin alive
    /\ pm.result = "False"
    /\ PmOps = <<"Process">>

\* C12: suspend_process and resume_process on a process that is alive and
\* that the caller may signal return True after exactly one suspend (resume)
\* directive: no sleep, no second call
C12_SuspendResumeSingleDirective ==
    [][ (pc["ui"] = "pm_directive" /\ pc'["ui"] # "pm_directive"
           /\ pm.pid \in alive /\ os_mem[pm.pid] # None)
          => /\ pc'["ui"] = "pm_done"
             /\ pm'.result = "True"
             /\ pm'.calls = <<[op |-> IF pm.op = "suspend_process" THEN "suspend"
                                      ELSE "resume",
                               outcome |-> "ok"]>>
             /\ pm_wake' = pm_wake
             /\ stopped' = IF pm.op = "suspend_process" THEN stopped \cup {pm.pid}
                           ELSE stopped \ {pm.pid}
      ]_vars

\* C12 witness: resume_process returns True for a process that an earlier
\* suspend_process had suspended
C12_Witness ==
    /\ pc["ui"] = "pm_done"
    /\ pm.op = "resume_process"
    /\ pm.was_stopped
    /\ pm.result = "True"
    /\ PmOps = <<"resume">>
    /\ pm.pid \in alive \ stopped

\* C13 as the spec states it: a process-control call that returns False has
\* delivered no signal and no directive to the process
C13_FailureDeliveredNothing ==
    (pc["ui"] = "pm_done" /\ pm.result = "False") => ~Delivered

\* ==== the view mode (ViewSpec) =================================================
\* ---- the event loop alone, in any view ----------------------------------------
NextView ==
    \/ Tick
    \/ UiCycleViewMode
    \/ UiSetViewMode
    \/ UiScheduleMetricUpdates
    \/ UiUpdateMetrics
    \/ UiGpl
    \/ UiSortInPlace
    \/ UiShow

ViewSpec == Init /\ [][NextView]_vars

\* the step is a cycle_view_mode call
CycleStep == cycled' # cycled /\ cycled'.n > 0

\* C14: the view mode is minimal at the start and always one of minimal,
\* compact, detailed; cycle_view_mode takes minimal to compact, compact to
\* detailed and detailed to minimal
C14_OneViewModeCycling ==
    /\ view_mode = "minimal"
    /\ [](view_mode \in {"minimal", "compact", "detailed"})
    /\ [][ CycleStep => /\ view_mode = "minimal" => view_mode' = "compact"
                        /\ view_mode = "compact" => view_mode' = "detailed"
                        /\ view_mode = "detailed" => view_mode' = "minimal"
         ]_vars

\* C14 witness: cycle_view_mode has taken the detailed view back to minimal
C14_Witness ==
    /\ cycled = [from |-> "detailed", n |-> 1]
    /\ view_mode = "minimal"

\* C15: after three cycle_view_mode calls in a row the view mode is the one
\* the first call started from
C15_ThreeCyclesReturn == cycled.n = 3 => view_mode = cycled.from

\* C15 witness: three calls in a row that started in the compact view
C15_Witness ==
    /\ cycled = [from |-> "compact", n |-> 3]
    /\ view_mode = "compact"

\* ==== records =================================================================
\* C16: every record of every list that get_process_list built, stored or
\* returned has cpu_percent 0
C16_CpuPercentAlwaysZero ==
    /\ \A id \in Ids : \A i \in DOMAIN heap[id] : heap[id][i].cpu_percent = 0
    /\ \A t \in Threads : \A i \in DOMAIN processes[t] : processes[t][i].cpu_percent = 0
    /\ \A i \in DOMAIN data_queue :
          \A j \in DOMAIN heap[data_queue[i].processes] :
             heap[data_queue[i].processes][j].cpu_percent = 0

\* C16 witness: update_process_list holds a full list that came from the
\* cache and the sampler has queued a fresh one
C16_Witness ==
    /\ pc["ui"] = "upl_sort"
    /\ prev.hit
    /\ Len(heap[ret["ui"]]) = MaxPid
    /\ data_queue # <<>>
    /\ heap[data_queue[1].processes] # <<>>

\* ==== the sampling interval (IntervalSpec) =====================================
\* ---- the sampler and the settings window ---------------------------------------
NextInterval ==
    \/ Tick
    \/ TickWhileSleeping
    \/ SamplerCollect
    \/ SamplerGpl
    \/ SamplerPut
    \/ SamplerSleep
    \/ SamplerWake
    \/ UiSaveSettings

IntervalSpec == Init /\ [][NextInterval]_vars

\* C17: a sleep lasts the update_interval read when it began: save_settings
\* leaves the end of a sleep in progress where it was, the sleep does not end
\* before that, and a sleep that begins later ends update_interval after its
\* beginning with the value then current
C17_IntervalTakesEffectOnNextSleep ==
    [][ /\ (pc["sampler"] = "sleep" /\ pc'["sampler"] = "sleeping")
           => s_wake' = now + update_interval
        /\ (update_interval' # update_interval)
           => (s_wake' = s_wake /\ pc'["sampler"] = pc["sampler"])
        /\ (pc["sampler"] = "sleeping" /\ pc'["sampler"] # "sleeping")
           => now >= s_wake
      ]_vars

\* C17 witness: the interval was shortened during a sleep, which still ends
\* later than a sleep of the new length begun now would
C17_Witness ==
    /\ pc["sampler"] = "sleeping"
    /\ update_interval < DefaultInterval
    /\ ticks = 1
    /\ s_wake > now + update_interval

\* ==== who writes the cache entry ===============================================
\* C18 as the spec states it: no step of the event-loop thread assigns
\* process_cache or last_process_update
C18_UiNeverAssignsCacheEntry ==
    [][ pc'["ui"] # pc["ui"] => UNCHANGED <<process_cache, last_process_update>> ]_vars

\* ---- the event loop alone, reading the process list ---------------------------
NextReader ==
    \/ Tick
    \/ UiSetViewMode
    \/ UiScheduleMetricUpdates
    \/ UiUpdateMetrics
    \/ UiSortProcesses
    \/ UiFilterProcesses
    \/ UiGpl
    \/ UiSortInPlace
    \/ UiShow

ReaderSpec == InitCache /\ [][NextReader]_vars

\* C19 as the spec states it: what update_process_list and
\* update_simple_process_display do with the list they received leaves the
\* cached list as get_process_list stored it
C19_ReadersLeaveSnapshotUnchanged ==
    [][ (UiLeaves("upl_sort") \/ UiLeaves("show"))
          => heap'[process_cache'] = heap[process_cache]
      ]_vars

\* C20 as the spec states it: when line 130 reads a non-empty process_cache
\* and last_process_update, the timestamp is the one line 144 took for that
\* list (before the first line 144 there is no timestamp of another capture)
C20_EntryReadUntorn ==
    [][ (UiLeaves("gpl_check") /\ use_cache["ui"] /\ heap[process_cache] # <<>>)
          => (stamped = process_cache \/ stamped = 0)
      ]_vars

\* ==== the sampler's tick ========================================================
\* a step of the sampler thread that leaves position p
SamplerLeaves(p) == pc["sampler"] = p /\ pc'["sampler"] # p

\* what a tick does up to line 144: line 130 does not use the cache whatever
\* its age, the processes are enumerated, a new list replaces the cache entry
\* and the time is taken
TickRecaptures ==
    [][ /\ SamplerLeaves("gpl_check") => pc'["sampler"] = "gpl_enum"
        /\ SamplerLeaves("gpl_enum") => processes'["sampler"] = Enumerate
        /\ SamplerLeaves("gpl_store")
              => /\ process_cache' # process_cache
                 /\ heap'[process_cache'] = SortedByMemoryDesc(processes["sampler"])
        /\ SamplerLeaves("gpl_stamp") => last_process_update' = now
      ]_vars

\* C21 as the spec states it: a tick that completes without error enumerates
\* the processes whatever the age of the cache entry, replaces the entry and
\* its timestamp, and enqueues one bundle whose process table is the list
\* that this tick captured
C21_TickQueuesItsOwnCapture ==
    [][ /\ SamplerLeaves("gpl_check") => pc'["sampler"] = "gpl_enum"
        /\ SamplerLeaves("gpl_store") => process_cache' # process_cache
        /\ SamplerLeaves("gpl_stamp") => last_process_update' = now
        /\ SamplerLeaves("put")
              => data_queue' = Append(data_queue, [processes |-> s_list])
      ]_vars

\* ==== the constructor (ByteDogApp.__init__ from setup_ui on) ===================
\* line 315: setup_ui is about to build the three views, in the minimal view
\* mode set at line 289; no thread is started and nothing is scheduled
InitSetup ==
    /\ InitFields
    /\ pc = [t \in Threads |-> IF t = "sampler" THEN "not_started" ELSE "setup_ui"]
    /\ timers = {}
    /\ cpu_history = 0
    /\ ram_history = 0
    /\ view_mode = "minimal"
    /\ packed = FrameOf(view_mode)
    /\ alive = Pids
    /\ os_mem = DefaultMem

\* lines 1071-1115: update_performance_graph, called by create_performance_tab
\* (line 766) while setup_ui builds the detailed view, and afterwards by the
\* timer of line 1115: a sample is appended to each history, and the call is
\* scheduled again only if the view mode is detailed
UiUpdatePerformanceGraph ==
    /\ \/ pc["ui"] = "setup_ui"
       \/ pc["ui"] = "idle" /\ "update_performance_graph" \in timers
    /\ cpu_history < MaxSamples
    /\ cpu_history' = cpu_history + 1
    /\ ram_history' = ram_history + 1
    /\ timers' = IF view_mode = "detailed"
                 THEN timers \cup {"update_performance_graph"}
                 ELSE timers \ {"update_performance_graph"}
    /\ pc' = [pc EXCEPT !["ui"] = IF pc["ui"] = "setup_ui" THEN "start_monitoring"
                                  ELSE "idle"]
    /\ UNCHANGED <<clockVars, osVars, cacheVars, ghostVars, update_interval, use_cache,
                   processes, ret, samplerVars, queueVars, ui_op, ui_caller, uiOps,
                   view_mode, viewVars, sortVars, pmVars>>

\* lines 317-318, 1186-1210, 1420-1421: start_monitoring starts the thread of
\* monitor_loop, the constructor calls process_queue for the first time, and
\* run() schedules schedule_metric_updates before the event loop takes its
\* first callback
StartMonitoring ==
    /\ pc["ui"] = "start_monitoring"
    /\ pc["sampler"] = "not_started"
    /\ pc' = [pc EXCEPT !["sampler"] = "tick", !["ui"] = "pq_get"]
    /\ ui_op' = "process_queue"
    /\ timers' = timers \cup {"schedule_metric_updates"}
    /\ UNCHANGED <<clockVars, osVars, cacheVars, ghostVars, update_interval, use_cache,
                   processes, ret, samplerVars, queueVars, ui_caller, uiOps,
                   view_mode, viewVars, cpu_history, ram_history, sortVars, pmVars>>

\* ---- the constructor, the sampler it starts and the first process_queue ------
NextStart ==
    \/ Tick
    \/ TickWhileSleeping
    \/ UiUpdatePerformanceGraph
    \/ StartMonitoring
    \/ SamplerStep
    \/ UiQueueGet
    \/ UiUpdateMetrics
    \/ UiQueueEmpty

StartSpec == InitSetup /\ [][NextStart]_vars

\* the positions of monitor_loop, get_process_list included
LoopPositions == {"tick", "gpl_check", "gpl_enum", "gpl_store", "gpl_stamp",
                  "gpl_return", "put", "except", "sleep", "sleeping"}

\* C22: one sampler loop is started, by start_monitoring in the constructor,
\* and never again; the loop is at one position at a time, and a tick begins
\* only at `while True`, which the loop reaches only from the end of the sleep
\* that follows the collection and the push (or the handled error) of the
\* tick before
C22_OneSamplerTickAtATime ==
    /\ [](pc["sampler"] \in LoopPositions \cup {"not_started"})
    /\ [](pc["sampler"] = "not_started" => (ticks = 0 /\ data_queue = <<>>))
    /\ [][ /\ SamplerLeaves("not_started")
              => (pc["ui"] = "start_monitoring" /\ pc'["sampler"] = "tick")
           /\ pc'["sampler"] = "not_started" => pc["sampler"] = "not_started"
           /\ pc'["ui"] = "start_monitoring" => pc["ui"] \in {"setup_ui", "start_monitoring"}
           /\ ticks' # ticks
              => /\ pc["sampler"] = "tick"
                 /\ ticks' = ticks + 1
                 /\ s_wake = 0
                 /\ ticks > 0 => (s_put \/ s_err # "none")
           /\ SamplerLeaves("put") => (pc'["sampler"] = "sleep" /\ s_put')
           /\ SamplerLeaves("except") => pc'["sampler"] = "sleep"
           /\ SamplerLeaves("sleep") => pc'["sampler"] = "sleeping"
           /\ SamplerLeaves("sleeping")
              => (pc'["sampler"] = "tick" /\ now >= s_wake /\ s_wake' = 0)
           /\ (pc'["sampler"] = "tick" /\ pc["sampler"] # "tick")
              => pc["sampler"] \in {"not_started", "sleeping"}
         ]_vars

\* C22 witness: the second tick is collecting, after the first tick pushed
\* its bundle and slept for the whole interval
C22_Witness ==
    /\ ticks = 2
    /\ pc["sampler"] = "gpl_enum"
    /\ now >= TTL + DefaultInterval
    /\ s_wake = 0
    /\ pc["ui"] = "idle"
    /\ cpu_history = 1

\* ==== who enumerates the process table ===========================================
\* C23 as the spec states it: the periodic callbacks of the event loop
\* (process_queue and schedule_metric_updates, through update_metrics,
\* update_process_list and update_simple_process_display) never enumerate the
\* processes: they only read a list captured before
C23_PeriodicCallbacksNeverEnumerate ==
    [][ UiLeaves("gpl_enum")
          => ui_op \notin {"process_queue", "schedule_metric_updates"}
      ]_vars

\* ==== the handoff queue drained by the event loop (DrainSpec) ===================
\* lines 1212, 1223: the timer of root.after(1000, self.process_queue) fires;
\* the timer is set again by every run, so these runs are not counted among
\* the MaxUiOps callbacks of a run of the model
UiProcessQueueAgain ==
    /\ pc["ui"] = "idle"
    /\ "process_queue" \in timers
    /\ ui_op' = "process_queue"
    /\ timers' = timers \ {"process_queue"}
    /\ pc' = [pc EXCEPT !["ui"] = "pq_get"]
    /\ UNCHANGED <<clockVars, osVars, cacheVars, update_interval, use_cache,
                   processes, ret, ghostVars, samplerVars, queueVars, ui_caller, uiOps,
                   view_mode, viewVars, cpu_history, ram_history, pmVars, sortVars>>

\* process_queue and what it calls in the minimal view
UiDrain ==
    \/ UiProcessQueueAgain
    \/ UiQueueGet
    \/ UiUpdateMetrics
    \/ UiQueueEmpty

NextDrain == Tick \/ TickWhileSleeping \/ SamplerStep \/ UiDrain

\* the clock advances, the sampler thread is scheduled, and the Tk event loop
\* runs the timers that are due
DrainSpec ==
    /\ Init
    /\ [][NextDrain]_vars
    /\ WF_vars(Tick \/ TickWhileSleeping)
    /\ WF_vars(SamplerStep)
    /\ WF_vars(UiDrain)

\* C24: process_queue takes the bundles with get_nowait until the queue is
\* empty, never waits on an empty queue, ends and schedules itself again
\* every time; every bundle the sampler enqueues is dequeued sooner or later
C24_QueueDrainedForever ==
    /\ [](pc["ui"] = "idle" => "process_queue" \in timers)
    /\ [][ /\ (UiLeaves("pq_get") /\ data_queue # <<>>)
              => data_queue' = Tail(data_queue)
           /\ (UiLeaves("pq_get") /\ data_queue = <<>>)
              => (pc'["ui"] = "idle" /\ "process_queue" \in timers')
         ]_vars
    /\ (pc["ui"] = "pq_get") ~> (pc["ui"] = "idle")
    /\ []<>(pc["ui"] = "pq_get")
    /\ (data_queue # <<>>) ~> (data_queue = <<>>)

\* C24 witness: the second tick has pushed its bundle and the event loop has
\* taken every bundle and is waiting for its timer
C24_Witness ==
    /\ ticks = 2
    /\ s_put
    /\ pc["sampler"] = "sleeping"
    /\ data_queue = <<>>
    /\ pc["ui"] = "idle"
    /\ "process_queue" \in timers

\* ==== what the control calls leave alone (RaceSpec) =============================
\* the positions of the event loop inside kill_process, suspend_process and
\* resume_process
PmPositions == {"pm_lookup", "k_terminate", "k_sleep", "k_sleeping", "k_kill",
                "pm_directive"}

\* ---- process control from the detailed view during a tick of the sampler -----
\* processes leave the table by kill_process only
NextRace ==
    \/ SleepTick
    \/ SamplerCollect
    \/ SamplerGpl
    \/ SamplerPut
    \/ PmStep
    \/ UiRefreshProcesses
    \/ UiGpl
    \/ UiSortInPlace

RaceSpec == InitControl /\ [][NextRace]_vars

\* C25: no step of kill_process, suspend_process or resume_process, from the
\* first statement to the return with True or with False, changes
\* process_cache, any list, last_process_update, the handoff queue or
\* update_interval, and the methods wait for nothing but the time.sleep of
\* kill_process: what the sampler does meanwhile is all that changes them
C25_ControlCallsLeaveMonitorState ==
    [][ (pc["ui"] \in PmPositions /\ pc'["ui"] # pc["ui"])
          => /\ UNCHANGED <<process_cache, last_process_update, heap, nextId,
                            data_queue, update_interval>>
             /\ pc'["ui"] \in PmPositions \cup {"pm_done"}
      ]_vars

\* C25 witness: kill_process returns after terminate, the sleep and kill,
\* while the cache holds the sampler's list and its bundle is in the queue
C25_Witness ==
    /\ KillReturns
    /\ pm.result = "True"
    /\ PmOps = <<"terminate", "is_running", "kill">>
    /\ heap[process_cache] # <<>>
    /\ last_process_update > 0
    /\ data_queue # <<>>

\* the pids of the list that update_process_list is about to show
ShownPids == {heap[ret["ui"]][i].pid : i \in DOMAIN heap[ret["ui"]]}

\* C27 as the spec states it: the list that is shown after a kill, suspend or
\* resume of the selected process and the refresh_processes that follows comes
\* from an enumeration that began after the control call returned; where
\* processes leave the table by kill_process only, such a list holds the
\* processes that exist and no other
C27_RefreshShowsListCapturedAfterControl ==
    [][ (UiLeaves("upl_sort")
           /\ ui_op \in {"kill_process", "suspend_process", "resume_process"})
          => ShownPids = alive
      ]_vars

\* ==== what a change of view leaves alone (FrameSpec) ============================
\* ---- the views, the sort order and the interval during a tick of the sampler --
NextFrame ==
    \/ UiCycleViewMode
    \/ UiSetViewMode
    \/ UiSortProcesses
    \/ UiGpl
    \/ UiSortInPlace
    \/ UiSaveSettings
    \/ SamplerCollect
    \/ SamplerGpl
    \/ SamplerPut

FrameSpec == Init /\ [][NextFrame]_vars

\* the step is a set_view_mode or a cycle_view_mode call
ViewStep == cycled' # cycled \/ asked' # asked \/ view_mode' # view_mode

\* C26: set_view_mode(mode) makes mode the view mode whatever the mode
\* before, and packs its frame; set_view_mode and cycle_view_mode leave the
\* process cache, its timestamp, the handoff queue, the sampling interval and
\* the sort settings as they are, and start no call of get_process_list
C26_ViewChangeOnlySetsMode ==
    /\ [](asked # NoAsk => (cycled = NoCycle /\ view_mode = asked.mode))
    /\ [](packed = FrameOf(view_mode))
    /\ [][ ViewStep
             => /\ UNCHANGED <<process_cache, last_process_update, heap, nextId,
                               data_queue, update_interval, sortVars>>
                /\ UNCHANGED <<pc, use_cache, processes, ret>>
         ]_vars

\* C26 witness: set_view_mode("minimal") in the detailed view, with a
\* captured list in the cache, a bundle in the queue, and a sort column and
\* an interval that are not the initial ones
C26_Witness ==
    /\ asked = [from |-> "detailed", mode |-> "minimal"]
    /\ view_mode = "minimal"
    /\ packed = "minimal_frame"
    /\ heap[process_cache] # <<>>
    /\ data_queue # <<>>
    /\ sort_column = "pid"
    /\ update_interval # DefaultInterval

\* ==== the performance histories (PerfSpec) =======================================
\* ---- the constructor, then the event loop with its timers and the view modes ---
NextPerf ==
    \/ Tick
    \/ UiUpdatePerformanceGraph
    \/ StartMonitoring
    \/ UiProcessQueueAgain
    \/ UiQueueEmpty
    \/ UiCycleViewMode
    \/ UiSetViewMode

\* the clock advances and the Tk event loop runs the timers that are due
PerfSpec ==
    /\ InitSetup
    /\ [][NextPerf]_vars
    /\ WF_vars(Tick)
    /\ WF_vars(UiUpdatePerformanceGraph)
    /\ WF_vars(StartMonitoring \/ UiProcessQueueAgain \/ UiQueueEmpty)

\* C28 as the spec states it: as long as the view mode is detailed, each of
\* cpu_history and ram_history receives another sample sooner or later
C28_HistoriesGrowInDetailedView ==
    \A n \in 0..(MaxSamples - 1) :
       (view_mode = "detailed" /\ cpu_history = n /\ ram_history = n)
          ~> (view_mode # "detailed" \/ (cpu_history > n /\ ram_history > n))

\* ==== the empty cache entry (RaceSpec) ===========================================
\* C29: get_process_list(use_cache=True) that finds an empty list in
\* process_cache enumerates the processes, however young last_process_update
\* is, and the list that line 131 returns as a cache hit is never empty
C29_EmptyCacheNeverServed ==
    [][ /\ (UiLeaves("gpl_check") /\ use_cache["ui"] /\ heap[process_cache] = <<>>)
           => pc'["ui"] = "gpl_enum"
        /\ (UiLeaves("gpl_enum") /\ use_cache["ui"])
           => processes'["ui"] = Enumerate
        /\ UiLeaves("gpl_hit") => heap'[ret'["ui"]] # <<>>
      ]_vars

\* C29 witness: refresh_processes, after a control call, emptied an entry
\* whose timestamp is younger than the TTL, and update_process_list is
\* enumerating the processes
C29_Witness ==
    /\ pc["ui"] = "gpl_store"
    /\ ui_op \in {"kill_process", "suspend_process", "resume_process"}
    /\ use_cache["ui"]
    /\ call.seen_ts > 0
    /\ call.at - call.seen_ts < TTL
    /\ processes["ui"] = Enumerate

==============================================================================
